---- MODULE Spec2Model ----
(***************************************************************************)
(* Model of thesis_downloader.py: the row loop of main() with its offset   *)
(* / limit window, the filename derivation, the field value transforms,    *)
(* download_pdf, calculate_md5 and the CSV writer, over repeated runs that *)
(* share one download directory and one output file.                       *)
(*                                                                         *)
(* Strings are TLA+ strings; Python's str methods are operators that       *)
(* compute what the methods compute.  An exception raised by Python is a   *)
(* non-empty "exc" field of the value an operator returns.                 *)
(***************************************************************************)
EXTENDS Integers, Sequences, FiniteSets, TLC

VARIABLES
    rows,       \* the data rows of CSV_FILE, in source order
    OFFSET,     \* config.ini: offset
    LIMIT,      \* config.ini: limit (0 means no limit)
    run,        \* number of the run of main() in progress (1-based)
    pc,         \* "loop" | "done" | "raised": where main() is
    idx,        \* enumerate(reader): index of the next row to read
    files,      \* DOWNLOAD_DIR: path -> content (sequence of chunks)
    out,        \* OUTPUT_CSV: the rows written, header first
    log,        \* history: one record per loop iteration of every run
    fn,         \* filename derivation applied to one input
    xf          \* a field value transform applied repeatedly to one input

vars == <<rows, OFFSET, LIMIT, run, pc, idx, files, out, log, fn, xf>>

(***************************************************************************)
(* Bounds of the model.                                                    *)
(***************************************************************************)
MaxRows == 2
MaxRuns == 2
MaxLen == 5
MaxPieces == 3

(***************************************************************************)
(* Python str methods.                                                     *)
(***************************************************************************)
Char(s, i) == SubSeq(s, i, i)

From(s, i) == SubSeq(s, i, Len(s))

IsSpace(c) == c \in {" ", "\t", "\n", "\r"}

Contains(s, sub) ==
    \E i \in 1..(Len(s) - Len(sub) + 1) : SubSeq(s, i, i + Len(sub) - 1) = sub

\* str.replace(old, new): every non-overlapping occurrence, left to right
RECURSIVE Replace(_, _, _)
Replace(s, old, new) ==
    IF Len(s) < Len(old) THEN s
    ELSE IF SubSeq(s, 1, Len(old)) = old
         THEN new \o Replace(From(s, Len(old) + 1), old, new)
         ELSE Char(s, 1) \o Replace(From(s, 2), old, new)

RECURSIVE LStrip(_)
LStrip(s) == IF s # "" /\ IsSpace(Char(s, 1)) THEN LStrip(From(s, 2)) ELSE s

RECURSIVE RStrip(_)
RStrip(s) ==
    IF s # "" /\ IsSpace(Char(s, Len(s)))
    THEN RStrip(SubSeq(s, 1, Len(s) - 1)) ELSE s

\* str.strip()
Strip(s) == RStrip(LStrip(s))

RECURSIVE TokenLen(_)
TokenLen(s) ==
    IF s = "" \/ IsSpace(Char(s, 1)) THEN 0 ELSE 1 + TokenLen(From(s, 2))

\* str.split(): the maximal runs of non-whitespace
RECURSIVE SplitWs(_)
SplitWs(s) ==
    LET t == LStrip(s) IN
    IF t = "" THEN <<>>
    ELSE <<SubSeq(t, 1, TokenLen(t))>> \o SplitWs(From(t, TokenLen(t) + 1))

RECURSIVE SepPos(_, _)
SepPos(s, sep) ==
    IF s = "" THEN 0
    ELSE IF Char(s, 1) = sep THEN 1
    ELSE LET p == SepPos(From(s, 2), sep) IN IF p = 0 THEN 0 ELSE p + 1

\* str.split(sep) for a one-character sep: empty parts are kept
RECURSIVE Split(_, _)
Split(s, sep) ==
    LET p == SepPos(s, sep) IN
    IF p = 0 THEN <<s>>
    ELSE <<SubSeq(s, 1, p - 1)>> \o Split(From(s, p + 1), sep)

\* sep.join(parts)
RECURSIVE Join(_, _)
Join(parts, sep) ==
    IF parts = <<>> THEN ""
    ELSE IF Len(parts) = 1 THEN parts[1]
    ELSE parts[1] \o sep \o Join(Tail(parts), sep)

UpperLetters == "ABCDEFGHIJKLMNOPQRSTUVWXYZ"

LowerLetters == "abcdefghijklmnopqrstuvwxyz"

\* the lower-case letter of each upper-case letter
LowerOf ==
    [c \in {Char(UpperLetters, i) : i \in 1..26} |->
        Char(LowerLetters, CHOOSE i \in 1..26 : Char(UpperLetters, i) = c)]

\* str.lower() on ASCII
RECURSIVE Lower(_)
Lower(s) ==
    IF s = "" THEN ""
    ELSE (IF Char(s, 1) \in DOMAIN LowerOf
          THEN LowerOf[Char(s, 1)] ELSE Char(s, 1)) \o Lower(From(s, 2))

Digits == <<"0", "1", "2", "3", "4", "5", "6", "7", "8", "9">>

IsDigit(c) == \E i \in 1..10 : Digits[i] = c

DigitVal(c) == (CHOOSE i \in 1..10 : Digits[i] = c) - 1

RECURSIVE DigitsVal(_, _)
DigitsVal(s, acc) ==
    IF s = "" THEN acc
    ELSE IF Char(s, 1) = "_" THEN DigitsVal(From(s, 2), acc)
    ELSE DigitsVal(From(s, 2), 10 * acc + DigitVal(Char(s, 1)))

\* the literals int() accepts: whitespace, a sign, digits with single
\* underscores between them
IsIntLiteral(s) ==
    LET t == Strip(s)
        u == IF t # "" /\ Char(t, 1) \in {"+", "-"} THEN From(t, 2) ELSE t
    IN /\ u # ""
       /\ \A i \in 1..Len(u) : IsDigit(Char(u, i)) \/ Char(u, i) = "_"
       /\ IsDigit(Char(u, 1)) /\ IsDigit(Char(u, Len(u)))
       /\ ~Contains(u, "__")

\* int(s), for an accepted literal
ParseInt(s) ==
    LET t == Strip(s)
        neg == t # "" /\ Char(t, 1) = "-"
        u == IF t # "" /\ Char(t, 1) \in {"+", "-"} THEN From(t, 2) ELSE t
    IN IF neg THEN 0 - DigitsVal(u, 0) ELSE DigitsVal(u, 0)

\* f"{n:02d}"
Format02d(n) ==
    IF n < 0 THEN ToString(n)
    ELSE IF n < 10 THEN "0" \o ToString(n) ELSE ToString(n)

\* unidecode.unidecode on the non-ASCII characters the inputs use
Unidecode(s) == Replace(Replace(s, "é", "e"), "ü", "u")

(***************************************************************************)
(* The input table: the columns main() reads, and the lookup tables.       *)
(***************************************************************************)
headers ==
    <<"Author", "Title", "Degree", "Submitted Date", "Approved Date",
      "Date of Embargo", "Abstract", "Other Titles", "Keywords",
      "Supervisor Info", "Download Link", " MD5">>

\* item_index[h]
ItemIndex(h) == CHOOSE i \in 1..Len(headers) : headers[i] = h

\* line[item_index.get(h, "")]
Get(line, h) == line[ItemIndex(h)]

degree_map ==
    [d \in {"Master of Nursing", "Master of Arts", "Master of Laws",
            "Doctor of Education", "Doctor of Music",
            "Master of Arts/Master of Library and Information Studies",
            "Doctor of Philosophy", "Master of Science",
            "Master of Education"} |->
        CASE d = "Master of Nursing" -> "MN"
          [] d = "Master of Arts" -> "MA"
          [] d = "Master of Laws" -> "LLM"
          [] d = "Doctor of Education" -> "DEd"
          [] d = "Doctor of Music" -> "DM"
          [] d = "Master of Arts/Master of Library and Information Studies"
                -> "MAMLIS"
          [] d = "Doctor of Philosophy" -> "PhD"
          [] d = "Master of Science" -> "MSc"
          [] d = "Master of Education" -> "MEd"]

\* degree_map.get(degree_val, 'UNK')
DegreeAbbrev(d) == IF d \in DOMAIN degree_map THEN degree_map[d] ELSE "UNK"

Ok(v) == [exc |-> "", val |-> v]

Raise(e) == [exc |-> e, val |-> ""]

(***************************************************************************)
(* Filename derivation.                                                    *)
(***************************************************************************)
\* a variant that keeps the token order of a comma-less name
AuthorTokenKeepOrder(a) ==
    LET names == Strip(a)
        toks == SplitWs(names)
    IN IF ~Contains(names, ",") /\ toks = <<>> THEN Raise("IndexError")
       ELSE LET spaced == Replace(Replace(names, ",", ", "), "  ", " ")
            IN Ok(Replace(Replace(Replace(spaced, ", ", " "), " ", "_"),
                          ".", ""))

\* the author token of a row: names.pop() raises on an empty list
AuthorToken(a) ==
    LET names == Strip(a)
        toks == SplitWs(names)
    IN IF ~Contains(names, ",") /\ toks = <<>> THEN Raise("IndexError")
       ELSE LET moved ==
                    IF Contains(names, ",") THEN names
                    ELSE Join(<<toks[Len(toks)] \o ",">>
                              \o SubSeq(toks, 1, Len(toks) - 1), " ")
                spaced == Replace(Replace(moved, ",", ", "), "  ", " ")
            IN Ok(Replace(Replace(Replace(spaced, ", ", " "), " ", "_"),
                          ".", ""))

\* m, d, y = v.split('/') raises unless there are exactly three parts
UnpackDate(v) ==
    IF Len(Split(v, "/")) = 3 THEN Ok(Split(v, "/")) ELSE Raise("ValueError")

\* the filename of a row whose author token is author
DeriveFilename(author, submitted, degree, i) ==
    IF submitted # "" /\ Contains(submitted, "/")
    THEN LET p == UnpackDate(submitted) IN
         IF p.exc # "" THEN p
         ELSE IF ~IsIntLiteral(p.val[1]) THEN Raise("ValueError")
         ELSE Ok(Unidecode(Replace(
                 author \o "_" \o p.val[3] \o Format02d(ParseInt(p.val[1]))
                 \o "_" \o DegreeAbbrev(degree) \o ".pdf", "__", "_")))
    ELSE Ok("file_" \o ToString(i) \o ".pdf")

\* a date field written back as f"{m}/{d}/{y}"
RewriteDate(v) ==
    IF v # "" /\ Contains(v, "/")
    THEN LET p == UnpackDate(v) IN
         IF p.exc # "" THEN p ELSE Ok(Join(p.val, "/"))
    ELSE Ok(v)

(***************************************************************************)
(* Field value transforms.                                                 *)
(***************************************************************************)
EscapedFields == {"Abstract", "Title", "Other Titles"}

TransformedFields == EscapedFields \cup {"Keywords", "Supervisor Info"}

\* a variant whose Keywords transform forgets the ", " separator
FieldTransformNoComma(h, v) ==
    CASE h \in EscapedFields -> Replace(v, "\\", "\\\\")
      [] h = "Keywords" -> Replace(v, "|#|", "|")
      [] h = "Supervisor Info" -> Replace(v, "|#|", "|")
      [] OTHER -> v

\* the value written for column h of a row whose value there is v
FieldTransform(h, v) ==
    CASE h \in EscapedFields -> Replace(v, "\\", "\\\\")
      [] h = "Keywords" -> Replace(Replace(v, "|#|", "|"), ", ", "|")
      [] h = "Supervisor Info" -> Replace(v, "|#|", "|")
      [] OTHER -> v

(***************************************************************************)
(* One loop iteration up to the download decision.                         *)
(***************************************************************************)
\* line, filename and url of row number i, or the exception raised on the
\* way: the author token, then the Submitted Date, then the Approved Date,
\* then the Date of Embargo
Prepare(row, i) ==
    LET a == AuthorToken(Get(row, "Author"))
        f == DeriveFilename(a.val, Get(row, "Submitted Date"),
                            Get(row, "Degree"), i)
        sub == RewriteDate(Get(row, "Submitted Date"))
        app == RewriteDate(Get(row, "Approved Date"))
        emb == RewriteDate(Get(row, "Date of Embargo"))
        line == [k \in 1..Len(headers) |->
                    CASE headers[k] = "Submitted Date" -> sub.val
                      [] headers[k] = "Approved Date" -> app.val
                      [] headers[k] = "Date of Embargo" -> emb.val
                      [] OTHER -> FieldTransform(headers[k], row[k])]
        exc == IF a.exc # "" THEN a.exc
               ELSE IF f.exc # "" THEN f.exc
               ELSE IF app.exc # "" THEN app.exc
               ELSE emb.exc
    IN IF exc # ""
       THEN [exc |-> exc, filename |-> "", line |-> <<>>, url |-> ""]
       ELSE [exc |-> "", filename |-> f.val, line |-> line,
             url |-> Strip(Get(line, "Download Link"))]

(***************************************************************************)
(* The download directory, the server, download_pdf and calculate_md5.     *)
(***************************************************************************)
\* what a URL serves: the chunks response.iter_content yields
Body(url) ==
    IF url = "http://host/a" THEN <<"c1", "c2">> ELSE <<"c3">>

\* hashlib.md5 of the contents the model can produce
Md5Hex(data) ==
    CASE data = <<>> -> "d41d8cd98f00b204e9800998ecf8427e"
      [] data = <<"c1">> -> "a9f7e97965d6cf799a529102a973b8b9"
      [] data = <<"c1", "c2">> -> "b2f2f0158c9c58298edc4736c986f0e5"
      [] data = <<"c3">> -> "0a3d72134fb3d6c024db4c510bc1605b"

\* os.path.exists(file_path) and the content there
FileAt(fs, path) ==
    IF path \in DOMAIN fs THEN [exists |-> TRUE, data |-> fs[path]]
    ELSE [exists |-> FALSE, data |-> <<>>]

\* calculate_md5(file_path)
calculate_md5(fs, path) == Md5Hex(fs[path])

\* how one call of download_pdf can go: the request or open() fails, the
\* body breaks off after k chunks are written, or everything is written
Outcomes(url) ==
    {[kind |-> "error", k |-> 0], [kind |-> "complete", k |-> Len(Body(url))]}
    \cup {[kind |-> "broken", k |-> k] : k \in 0..Len(Body(url))}

\* a variant that removes what it wrote when the body breaks off
download_pdf_cleanup(url, path, fs, o) ==
    CASE o.kind = "error" -> [ok |-> FALSE, exc |-> "", files |-> fs]
      [] o.kind = "broken" -> [ok |-> FALSE, exc |-> "", files |-> fs]
      [] o.kind = "complete" ->
            [ok |-> TRUE, exc |-> "", files |-> (path :> Body(url)) @@ fs]

\* a variant without the try/except
download_pdf_raises(url, path, fs, o) ==
    CASE o.kind = "error" ->
            [ok |-> FALSE, exc |-> "RequestException", files |-> fs]
      [] o.kind = "broken" ->
            [ok |-> FALSE, exc |-> "OSError",
             files |-> (path :> SubSeq(Body(url), 1, o.k)) @@ fs]
      [] o.kind = "complete" ->
            [ok |-> TRUE, exc |-> "", files |-> (path :> Body(url)) @@ fs]

\* download_pdf(url, filename) under outcome o: every exception is caught
download_pdf(url, path, fs, o) ==
    CASE o.kind = "error" -> [ok |-> FALSE, exc |-> "", files |-> fs]
      [] o.kind = "broken" ->
            [ok |-> FALSE, exc |-> "",
             files |-> (path :> SubSeq(Body(url), 1, o.k)) @@ fs]
      [] o.kind = "complete" ->
            [ok |-> TRUE, exc |-> "", files |-> (path :> Body(url)) @@ fs]

NeedsDownloadAlways(fs, path) == TRUE

\* if not os.path.exists(file_path)
NeedsDownload(fs, path) == ~FileAt(fs, path).exists

Md5ValidCaseSensitive(expected, actual) ==
    IF expected # "" /\ expected = actual THEN 1 ELSE 0

\* md5_valid for the expected digest of the row and the digest of the file
Md5Valid(expected, actual) ==
    IF Lower(expected) # "" /\ Lower(expected) = Lower(actual) THEN 1 ELSE 0

(***************************************************************************)
(* The output file.                                                        *)
(***************************************************************************)
HeaderRow == <<"filename">> \o headers \o <<"md5_valid">>

OpenOutputAppend(old) == old \o <<HeaderRow>>

\* open(OUTPUT_CSV, "w") and the header row written to it
OpenOutput(old) == <<HeaderRow>>

\* the row writer.writerow is given
DataRow(filename, line, md5_valid) == <<filename>> \o line

(***************************************************************************)
(* The rows a source can hold.                                             *)
(***************************************************************************)
RowValid ==
    <<"Doe John", "A\\B", "Master of Science", "3/5/2021", "4/1/2021", "",
      "", "", "cats|#|dogs, birds", "X|#|Y", " http://host/a ",
      "B2F2F0158C9C58298EDC4736C986F0E5">>

RowSameName ==
    <<"Doe John", "", "Master of Science", "3/5/2021", "", "6/30/2022",
      "", "", "", "", "http://host/b", "">>

RowMismatch ==
    <<"Smith, J.", "", "Diploma", "12/25/2020", "", "",
      "", "", "", "", "http://host/b",
      "a9f7e97965d6cf799a529102a973b8b9">>

RowNoUrl ==
    <<"Doe, John", "", "Doctor of Philosophy", "2021-03-05", "", "",
      "", "", "", "", "  ", "0a3d72134fb3d6c024db4c510bc1605b">>

RowNoAuthor ==
    <<"", "", "Master of Arts", "3/5/2021", "", "",
      "", "", "", "", "http://host/a", "">>

RowBadApproved ==
    <<"Doe John", "", "Master of Science", "3/5/2021", "2021/04", "",
      "", "", "", "", "http://host/a",
      "b2f2f0158c9c58298edc4736c986f0e5">>

RowInputs ==
    {RowValid, RowSameName, RowMismatch, RowNoUrl, RowNoAuthor,
     RowBadApproved}

(***************************************************************************)
(* main(): the row loop, and main() run again.                             *)
(***************************************************************************)
\* Prepare, tabulated over the rows and indices of the model
Prepared ==
    [r \in RowInputs |-> [i \in 0..MaxRows |-> Prepare(r, i)]]

\* the row the loop is at, prepared
Current == Prepared[rows[idx + 1]][idx]

NoFile == [exists |-> FALSE, data |-> <<>>]

\* the history record of a loop iteration that did not reach a row's
\* download decision
Event(kind, i) ==
    [run |-> run, idx |-> i, kind |-> kind, url |-> "", path |-> "",
     expected |-> "", before |-> NoFile, after |-> NoFile,
     called |-> FALSE, outcome |-> "none", ok |-> FALSE,
     digested |-> FALSE, md5_valid |-> 0]

InWindow(i) == i >= OFFSET /\ (LIMIT > 0 => i < OFFSET + LIMIT)

Init ==
    /\ rows \in UNION {[1..n -> RowInputs] : n \in 0..MaxRows}
    /\ OFFSET \in 0..(MaxRows - 1)
    /\ LIMIT \in 0..(MaxRows - 1)
    /\ run = 1
    /\ pc = "loop"
    /\ idx = 0
    /\ files = <<>>
    /\ out = OpenOutput(<<>>)
    /\ log = <<>>
    /\ fn = <<>>
    /\ xf = <<>>

\* if idx < OFFSET: continue
SkipBeforeOffset ==
    /\ pc = "loop"
    /\ idx < Len(rows)
    /\ idx < OFFSET
    /\ idx' = idx + 1
    /\ log' = Append(log, Event("skipped", idx))
    /\ UNCHANGED <<rows, OFFSET, LIMIT, run, pc, files, out, fn, xf>>

\* if LIMIT > 0: if idx >= OFFSET + LIMIT: break
BreakAtLimit ==
    /\ pc = "loop"
    /\ idx < Len(rows)
    /\ idx >= OFFSET
    /\ LIMIT > 0
    /\ idx >= OFFSET + LIMIT
    /\ pc' = "done"
    /\ log' = Append(log, Event("break", idx))
    /\ UNCHANGED <<rows, OFFSET, LIMIT, run, idx, files, out, fn, xf>>

\* the reader is exhausted
EndOfInput ==
    /\ pc = "loop"
    /\ idx = Len(rows)
    /\ pc' = "done"
    /\ log' = Append(log, Event("end", idx))
    /\ UNCHANGED <<rows, OFFSET, LIMIT, run, idx, files, out, fn, xf>>

\* the loop is at a row of the window
AtRow ==
    /\ pc = "loop"
    /\ idx < Len(rows)
    /\ InWindow(idx)

\* a row of the window whose preparation raises: main() ends there
RowRaises ==
    /\ AtRow
    /\ Current.exc # ""
    /\ pc' = "raised"
    /\ log' = Append(log, Event("raised", idx))
    /\ UNCHANGED <<rows, OFFSET, LIMIT, run, idx, files, out, fn, xf>>

NoOutcome == [kind |-> "none", k |-> 0]

\* if url: if not os.path.exists(file_path): success = download_pdf(...)
\* else: success = True
Fetch(p, o) ==
    IF p.url # "" /\ NeedsDownload(files, p.filename)
    THEN [called |-> TRUE, outcome |-> o.kind,
          res |-> download_pdf(p.url, p.filename, files, o)]
    ELSE [called |-> FALSE, outcome |-> "none",
          res |-> [ok |-> p.url # "", exc |-> "", files |-> files]]

\* if success and os.path.exists(file_path): the digests are compared
Verify(p, d) ==
    IF p.url # "" /\ d.res.exc = "" /\ d.res.ok
       /\ FileAt(d.res.files, p.filename).exists
    THEN [digested |-> TRUE,
          md5_valid |-> Md5Valid(Get(p.line, " MD5"),
                                 calculate_md5(d.res.files, p.filename))]
    ELSE [digested |-> FALSE, md5_valid |-> 0]

\* the end of the iteration: writer.writerow, unless download_pdf raised
Finish(p, d, v) ==
    /\ files' = d.res.files
    /\ log' = Append(log,
          [run |-> run, idx |-> idx,
           kind |-> IF d.res.exc # "" THEN "raised" ELSE "written",
           url |-> p.url, path |-> p.filename,
           expected |-> Get(p.line, " MD5"),
           before |-> FileAt(files, p.filename),
           after |-> FileAt(d.res.files, p.filename),
           called |-> d.called, outcome |-> d.outcome, ok |-> d.res.ok,
           digested |-> v.digested, md5_valid |-> v.md5_valid])
    /\ IF d.res.exc # ""
       THEN /\ pc' = "raised"
            /\ UNCHANGED <<idx, out>>
       ELSE /\ out' = Append(out, DataRow(p.filename, p.line, v.md5_valid))
            /\ idx' = idx + 1
            /\ pc' = "loop"
    /\ UNCHANGED <<rows, OFFSET, LIMIT, run, fn, xf>>

\* a prepared row p from its download decision to writer.writerow, under
\* outcome o of download_pdf, should it be called
ProcessRow(p, o) ==
    \E d \in {Fetch(p, o)} : \E v \in {Verify(p, d)} : Finish(p, d, v)

\* if url: is false
RowWithoutUrl ==
    /\ AtRow
    /\ \E p \in {Current} :
          /\ p.exc = ""
          /\ p.url = ""
          /\ ProcessRow(p, NoOutcome)

\* the destination file is there: success = True without a download
RowFileExists ==
    /\ AtRow
    /\ \E p \in {Current} :
          /\ p.exc = ""
          /\ p.url # ""
          /\ ~NeedsDownload(files, p.filename)
          /\ ProcessRow(p, NoOutcome)

\* success = download_pdf(url, file_path)
RowDownload ==
    /\ AtRow
    /\ \E p \in {Current} :
          /\ p.exc = ""
          /\ p.url # ""
          /\ NeedsDownload(files, p.filename)
          /\ \E o \in Outcomes(p.url) : ProcessRow(p, o)

\* main() is run again with the same config.ini: the output is opened
\* anew, the download directory is as the last run left it
StartRun ==
    /\ pc \in {"done", "raised"}
    /\ run < MaxRuns
    /\ run' = run + 1
    /\ pc' = "loop"
    /\ idx' = 0
    /\ out' = OpenOutput(out)
    /\ UNCHANGED <<rows, OFFSET, LIMIT, files, log, fn, xf>>

Next ==
    \/ SkipBeforeOffset
    \/ BreakAtLimit
    \/ EndOfInput
    \/ RowRaises
    \/ RowWithoutUrl
    \/ RowFileExists
    \/ RowDownload
    \/ StartRun

Spec == Init /\ [][Next]_vars

(***************************************************************************)
(* What the history says.                                                  *)
(***************************************************************************)
LogIdx == 1..Len(log)

\* the iteration reached the download decision of its row
Reached(e) == e.kind = "written" \/ e.called

\* the rows the current run has handed to the writer, in order
WrittenNow == SelectSeq(log, LAMBDA e : e.run = run /\ e.kind = "written")

\* the row handed to the writer in the iteration recorded as e
RowOf(e) ==
    DataRow(e.path, Prepared[rows[e.idx + 1]][e.idx].line, e.md5_valid)

RowsOf(es) == [k \in 1..Len(es) |-> RowOf(es[k])]

RunOver == pc \in {"done", "raised"}

\* iterations j1 and j2 are at the same row, j2 in a later run, and both
\* reached the download decision with a URL
SameRowLater(j1, j2) ==
    /\ j1 < j2
    /\ log[j1].run < log[j2].run
    /\ log[j1].idx = log[j2].idx
    /\ Reached(log[j1]) /\ Reached(log[j2])
    /\ log[j1].url # ""

(***************************************************************************)
(* C1: a run processes exactly the rows whose 0-based index i satisfies    *)
(* offset <= i < offset + limit (every i >= offset when limit = 0); for    *)
(* every other row no download is issued and no row is written.            *)
(***************************************************************************)
C1_AsClaimed ==
    RunOver =>
        /\ {WrittenNow[k].idx : k \in 1..Len(WrittenNow)}
              = {i \in 0..(Len(rows) - 1) :
                    OFFSET <= i /\ (LIMIT > 0 => i < OFFSET + LIMIT)}
        /\ \A j \in LogIdx :
              log[j].called =>
                 /\ OFFSET <= log[j].idx
                 /\ LIMIT > 0 => log[j].idx < OFFSET + LIMIT

(***************************************************************************)
(* C2: a download failure or a checksum mismatch on a row never aborts the *)
(* run: download_pdf returns false instead of raising, the row is written  *)
(* to the output exactly once, and the loop goes on to the next row.       *)
(***************************************************************************)
C2_FailureIsNotFatal ==
    \A j \in LogIdx :
        LET e == log[j]
            pos == 1 + Cardinality({k \in 1..j : /\ log[k].run = e.run
                                                 /\ log[k].kind = "written"})
        IN (e.called /\ ~e.ok) \/ (e.digested /\ e.md5_valid = 0) =>
              /\ e.kind = "written"
              /\ \A k \in LogIdx \ {j} :
                    ~(log[k].run = e.run /\ log[k].idx = e.idx
                      /\ log[k].kind = "written")
              /\ e.run = run =>
                    /\ Len(out) = 1 + Len(WrittenNow)
                    /\ out[pos] = RowOf(e)
              /\ IF j < Len(log) /\ log[j + 1].run = e.run
                 THEN log[j + 1].idx = e.idx + 1
                 ELSE e.run = run => pc = "loop" /\ idx = e.idx + 1

C2_Witness ==
    \E j \in LogIdx :
        /\ j < Len(log)
        /\ log[j].called /\ ~log[j].ok
        /\ log[j + 1].run = log[j].run
        /\ log[j + 1].kind = "written"
        /\ log[j + 1].digested /\ log[j + 1].md5_valid = 0
        /\ Len(out) = 3

(***************************************************************************)
(* C3: every data row of the output has the columns of the header row:     *)
(* the filename, the input columns in order, and the row's md5_valid flag  *)
(* (0 or 1) as the last column.                                            *)
(***************************************************************************)
C3_AsClaimed ==
    \A k \in 2..Len(out) :
        /\ Len(out[k]) = Len(out[1])
        /\ out[k][1] = WrittenNow[k - 1].path
        /\ out[k][Len(out[k])] = ToString(WrittenNow[k - 1].md5_valid)

(***************************************************************************)
(* C4: the md5_valid flag of a row handed to the writer is 1 if and only   *)
(* if the URL is non-empty, the file is at the destination path after a    *)
(* successful download or a skip, the expected MD5 is non-empty, and it    *)
(* equals the digest of that file compared case-insensitively.             *)
(***************************************************************************)
C4_Md5Valid ==
    \A j \in LogIdx :
        LET e == log[j] IN
        e.kind = "written" =>
            /\ e.md5_valid \in {0, 1}
            /\ e.md5_valid = 1 <=>
                  /\ e.url # ""
                  /\ ~e.called \/ e.ok
                  /\ e.after.exists
                  /\ e.expected # ""
                  /\ Lower(e.expected) = Lower(Md5Hex(e.after.data))

C4_Witness ==
    \E j \in LogIdx :
        /\ log[j].kind = "written"
        /\ log[j].called
        /\ log[j].md5_valid = 1
        /\ log[j].expected # Md5Hex(log[j].after.data)

(***************************************************************************)
(* C5: for a row with a non-empty URL whose destination file exists when   *)
(* the row is reached, download_pdf is not invoked, the file is left       *)
(* unchanged, its checksum is still computed and compared, and the row is  *)
(* still written to the output.                                            *)
(***************************************************************************)
C5_SkipExisting ==
    \A j \in LogIdx :
        LET e == log[j] IN
        Reached(e) /\ e.url # "" /\ e.before.exists =>
            /\ ~e.called
            /\ e.after = e.before
            /\ e.digested
            /\ e.md5_valid = 1 <=>
                  /\ e.expected # ""
                  /\ Lower(e.expected) = Md5Hex(e.before.data)
            /\ e.kind = "written"
            /\ e.run = run =>
                  \E k \in 2..Len(out) :
                      out[k] = RowOf(e) /\ WrittenNow[k - 1] = e

C5_Witness ==
    \E j \in LogIdx :
        /\ log[j].kind = "written"
        /\ log[j].url # ""
        /\ log[j].before.exists
        /\ ~log[j].called
        /\ log[j].digested
        /\ log[j].run = run
        /\ out[Len(out)] = RowOf(log[j])

(***************************************************************************)
(* C6: no row-level error is fatal: whatever the field values of a row of  *)
(* the window (an empty Author, a date with a slash that is not three      *)
(* slash-separated parts, an unknown Degree), processing it raises no      *)
(* exception, the row is written, and the run continues until the window   *)
(* is exhausted.                                                           *)
(***************************************************************************)
C6_AsClaimed ==
    /\ pc # "raised"
    /\ \A j \in LogIdx : log[j].kind # "raised"
    /\ pc = "done" =>
          \A i \in 0..(Len(rows) - 1) :
              OFFSET <= i /\ (LIMIT > 0 => i < OFFSET + LIMIT) =>
                  \E k \in 1..Len(WrittenNow) : WrittenNow[k].idx = i

(***************************************************************************)
(* C7: re-running is the retry for failed downloads: if download_pdf       *)
(* returned false for a row in one run (also when it failed part-way       *)
(* through the body), a later run over the same row with the same download *)
(* directory invokes download_pdf for it again, while rows whose download  *)
(* completed are skipped.                                                  *)
(***************************************************************************)
C7_AsClaimed ==
    \A j1 \in LogIdx, j2 \in LogIdx :
        SameRowLater(j1, j2) =>
            /\ log[j1].called /\ ~log[j1].ok => log[j2].called
            /\ log[j1].called /\ log[j1].ok => ~log[j2].called

\* C7 amended: a later run invokes download_pdf again for a row whose
\* download failed before the destination file was opened, unless another
\* row has put a file at that path meanwhile.  A download that failed
\* part-way through the body leaves its file in place, and the later run
\* skips that row just as it skips the rows whose download completed.
C7_Retry ==
    \A j1 \in LogIdx, j2 \in LogIdx :
        SameRowLater(j1, j2) =>
            /\ log[j1].path = log[j2].path
            /\ /\ log[j1].outcome = "error"
               /\ \A k \in (j1 + 1)..(j2 - 1) :
                     ~(log[k].path = log[j2].path /\ log[k].after.exists)
               => log[j2].called
            /\ log[j1].outcome = "broken" =>
                  /\ ~log[j1].ok
                  /\ ~log[j2].called
                  /\ log[j2].before.exists
            /\ log[j1].outcome = "complete" => ~log[j2].called

C7_Witness ==
    \E j1 \in LogIdx, j2 \in LogIdx :
        /\ SameRowLater(j1, j2)
        /\ log[j1].outcome = "broken"
        /\ log[j1].after.data = <<"c1">>
        /\ ~log[j2].called
        /\ log[j2].kind = "written"
        /\ \E j3 \in LogIdx, j4 \in LogIdx :
              /\ SameRowLater(j3, j4)
              /\ log[j3].outcome = "error"
              /\ log[j4].called

pipelineVars == <<rows, OFFSET, LIMIT, run, pc, idx, files, out, log>>

PipelineIdle ==
    /\ rows = <<>> /\ OFFSET = 0 /\ LIMIT = 0 /\ run = 0 /\ pc = "idle"
    /\ idx = 0 /\ files = <<>> /\ out = <<>> /\ log = <<>>

Pieces == {"Doe", "John", " ", ",", ".", "é"}

AuthorInputs ==
    {Join(p, "") : p \in UNION {[1..k -> Pieces] : k \in 0..MaxPieces}}

SubmittedInputs ==
    {"", "3/5/2021", "12/25/2020", "2021-03-05", "3/2021", "x/5/2021"}

DegreeInputs == {"Master of Science", "Doctor of Philosophy", "", "Diploma"}

InitDerive ==
    /\ PipelineIdle
    /\ xf = <<>>
    /\ fn \in [Author : AuthorInputs, Submitted : SubmittedInputs,
               Degree : DegreeInputs, idx : {0}, state : {"input"},
               author : {""}, filename : {""}, exc : {""}]

DeriveAuthorRaises ==
    /\ fn.state = "input"
    /\ \E a \in {AuthorToken(fn.Author)} :
          /\ a.exc # ""
          /\ fn' = [fn EXCEPT !.state = "done", !.exc = a.exc]
    /\ UNCHANGED <<pipelineVars, xf>>

DeriveDateRaises ==
    /\ fn.state = "input"
    /\ \E a \in {AuthorToken(fn.Author)} :
          /\ a.exc = ""
          /\ \E f \in {DeriveFilename(a.val, fn.Submitted, fn.Degree,
                                      fn.idx)} :
                /\ f.exc # ""
                /\ fn' = [fn EXCEPT !.state = "done", !.author = a.val,
                                    !.exc = f.exc]
    /\ UNCHANGED <<pipelineVars, xf>>

DeriveNamed ==
    /\ fn.state = "input"
    /\ \E a \in {AuthorToken(fn.Author)} :
          /\ a.exc = ""
          /\ \E f \in {DeriveFilename(a.val, fn.Submitted, fn.Degree,
                                      fn.idx)} :
                /\ f.exc = ""
                /\ fn' = [fn EXCEPT !.state = "done", !.author = a.val,
                                    !.filename = f.val]
    /\ UNCHANGED <<pipelineVars, xf>>

NextDerive == DeriveAuthorRaises \/ DeriveDateRaises \/ DeriveNamed

SpecDerive == InitDerive /\ [][NextDerive]_vars

(***************************************************************************)
(* A field value transform on its own: one input, transformed twice.       *)
(***************************************************************************)
Alphabet == {"\\", "|", "#", ",", " ", "a"}

RECURSIVE Concat(_)
Concat(cs) == IF cs = <<>> THEN "" ELSE Head(cs) \o Concat(Tail(cs))

ValueInputs == {Concat(p) : p \in UNION {[1..k -> Alphabet] : k \in 0..MaxLen}}

InitTransform ==
    /\ PipelineIdle
    /\ fn = <<>>
    /\ xf \in {[field |-> f, input |-> v, n |-> 0, once |-> "", cur |-> v] :
                  f \in TransformedFields, v \in ValueInputs}

Apply ==
    /\ xf.n < 2
    /\ xf' = [xf EXCEPT !.n = xf.n + 1,
                        !.cur = FieldTransform(xf.field, xf.cur),
                        !.once = IF xf.n = 0
                                 THEN FieldTransform(xf.field, xf.cur)
                                 ELSE xf.once]
    /\ UNCHANGED <<pipelineVars, fn>>

ApplyEscape == xf.field \in EscapedFields /\ Apply

ApplyKeywords == xf.field = "Keywords" /\ Apply

ApplySupervisor == xf.field = "Supervisor Info" /\ Apply

NextTransform == ApplyEscape \/ ApplyKeywords \/ ApplySupervisor

SpecTransform == InitTransform /\ [][NextTransform]_vars

(***************************************************************************)
(* C9: Author "Doe John", Submitted Date "3/5/2021" and Degree "Master of  *)
(* Science" yield the author token "Doe_John" and the filename             *)
(* "Doe_John_202103_MSc.pdf".                                              *)
(***************************************************************************)
C9_Input ==
    /\ fn.state = "done"
    /\ fn.Author = "Doe John"
    /\ fn.Submitted = "3/5/2021"
    /\ fn.Degree = "Master of Science"

C9_AsClaimed ==
    C9_Input =>
        /\ fn.exc = ""
        /\ fn.author = "Doe_John"
        /\ fn.filename = "Doe_John_202103_MSc.pdf"

\* C9 amended: the last whitespace-separated token of a comma-less Author
\* moves to the front, so "Doe John" yields the author token "John_Doe"
\* and the filename "John_Doe_202103_MSc.pdf" (token, 4-digit year,
\* zero-padded 2-digit month, degree abbreviation).
C9_Filename ==
    C9_Input =>
        /\ fn.exc = ""
        /\ fn.author = "John_Doe"
        /\ fn.filename = "John_Doe_202103_MSc.pdf"

C9_Witness == C9_Input /\ fn.filename = "John_Doe_202103_MSc.pdf"

(***************************************************************************)
(* C10: every field value transform is idempotent: applied to its own      *)
(* output it gives that output again, for every input string.              *)
(***************************************************************************)
C10_AsClaimed == xf.n = 2 => xf.cur = xf.once

\* C10 amended: a second application changes the value exactly when the
\* first output still holds something the transform replaces.  Backslash
\* escaping is idempotent exactly on the values without a backslash, the
\* Supervisor Info re-delimiting exactly on the values that do not contain
\* "|#|#|", and the Keywords re-delimiting exactly when its first output
\* contains neither "|#|" nor ", ".
C10_Idempotence ==
    xf.n = 2 =>
        /\ xf.field \in EscapedFields =>
              (xf.cur = xf.once <=> ~Contains(xf.input, "\\"))
        /\ xf.field = "Supervisor Info" =>
              (xf.cur = xf.once <=> ~Contains(xf.input, "|#|#|"))
        /\ xf.field = "Keywords" =>
              /\ ~Contains(xf.once, ", ")
              /\ xf.cur = xf.once <=> ~Contains(xf.once, "|#|")

C10_Witness ==
    /\ xf.n = 2
    /\ xf.field = "Keywords"
    /\ xf.input = "a, a"
    /\ xf.once = "a|a"
    /\ xf.cur = xf.once

====
